---- MODULE Spec2Model ----
(***************************************************************************)
(* Model of the Soleus WS3-08E-201 infrared climate component              *)
(* (components/soleus/soleus.h, soleus.cpp): the logical climate state of  *)
(* SoleusClimate, transmit_state (state -> 9-byte frame -> pulse train)    *)
(* and on_receive / parse_state_frame_ (pulse train -> frame -> state).    *)
(*                                                                         *)
(* C++ `float` values are modelled as IEEE-754 binary32 numbers: a record  *)
(* [m, e] stands for m * 2^e with m = 0 or 2^23 <= |m| < 2^24, and every   *)
(* arithmetic step rounds to nearest, ties to even, as the hardware does.  *)
(* NaN is the record with the reserved exponent 128.                       *)
(***************************************************************************)
EXTENDS Integers, Sequences, FiniteSets, TLC

----------------------------------------------------------------------------
(* binary32 arithmetic *)

\* NaN: the reserved exponent 128, as in the binary32 encoding
NaN == [m |-> 0, e |-> 128]

Abs(n) == IF n < 0 THEN -n ELSE n

Sgn(n) == IF n < 0 THEN -1 ELSE IF n = 0 THEN 0 ELSE 1

FZero == [m |-> 0, e |-> 0]

\* Scale a / d into [2^23, 2^24): the triple <<a * 2^k, d, k>> (k >= 0) or
\* <<a, d * 2^(-k), k>> (k < 0).
RECURSIVE Normalize(_, _, _)
Normalize(a, d, k) ==
  IF a \div d < 8388608 THEN Normalize(2 * a, d, k + 1)
  ELSE IF a \div d >= 16777216 THEN Normalize(a, 2 * d, k - 1)
  ELSE <<a, d, k>>

\* Round the quotient q with remainder r of a division by den, ties to even,
\* and attach the sign sg and the exponent e.
RoundQuotient(q, r, den, sg, e) ==
  IF (2 * r > den) \/ (2 * r = den /\ q % 2 = 1)
  THEN IF q + 1 = 16777216
       THEN [m |-> sg * 8388608, e |-> e + 1]
       ELSE [m |-> sg * (q + 1), e |-> e]
  ELSE [m |-> sg * q, e |-> e]

\* The binary32 number with sign sg nearest to (nz[1] / nz[2]) * 2^(e - nz[3]),
\* nz being a triple of Normalize.
RoundNormalized(nz, sg, e) ==
  RoundQuotient(nz[1] \div nz[2], nz[1] % nz[2], nz[2], sg, e - nz[3])

\* The binary32 number nearest to (n / d) * 2^e (d > 0), ties to even.
RoundDiv(n, d, e) ==
  IF n = 0 THEN FZero
  ELSE RoundNormalized(Normalize(Abs(n), d, 0), Sgn(n), e)

\* static_cast<float>(i) for a small integer i
FromInt(i) == RoundDiv(i, 1, 0)

\* x * c and x / c for a float x and a small whole constant c (9.0f, 5.0f)
FMulInt(x, c) == IF x = NaN THEN NaN ELSE RoundDiv(x.m * c, 1, x.e)

FDivInt(x, c) == IF x = NaN THEN NaN ELSE RoundDiv(x.m, c, x.e)

\* x + y for nonzero floats, aligned at the exponent e0 = min(x.e, y.e)
FAddAligned(x, y, e0) ==
  RoundDiv(x.m * (2^(x.e - e0)) + y.m * (2^(y.e - e0)), 1, e0)

\* x + y for floats of comparable magnitude
FAdd(x, y) ==
  IF x = NaN \/ y = NaN THEN NaN
  ELSE IF x.m = 0 THEN y
  ELSE IF y.m = 0 THEN x
  ELSE FAddAligned(x, y, IF x.e < y.e THEN x.e ELSE y.e)

FNeg(x) == IF x = NaN THEN NaN ELSE [m |-> -x.m, e |-> x.e]

FSub(x, y) == FAdd(x, FNeg(y))

\* x < y; false when either side is NaN
FLess(x, y) ==
  IF x = NaN \/ y = NaN THEN FALSE
  ELSE IF Sgn(x.m) # Sgn(y.m) THEN Sgn(x.m) < Sgn(y.m)
  ELSE IF x.m = 0 THEN FALSE
  ELSE IF x.m > 0
       THEN x.e < y.e \/ (x.e = y.e /\ x.m < y.m)
       ELSE x.e > y.e \/ (x.e = y.e /\ x.m < y.m)

\* std::min(a, b) == (b < a) ? b : a ;  std::max(a, b) == (a < b) ? b : a
FMin(a, b) == IF FLess(b, a) THEN b ELSE a

FMax(a, b) == IF FLess(a, b) THEN b ELSE a

\* static_cast<uint8_t>(x) for 0 <= x < 256: truncation toward zero
FTrunc(x) ==
  IF x.m = 0 THEN 0
  ELSE IF x.e >= 0 THEN x.m * (2^(x.e))
  ELSE IF -x.e > 30 THEN 0
  ELSE x.m \div (2^(-x.e))

----------------------------------------------------------------------------
(* soleus.h constants *)

SOLEUS_TEMP_MIN == 62
SOLEUS_TEMP_MAX == 86
SOLEUS_TEMP_MIN_C == 17
SOLEUS_TEMP_MAX_C == 30

SOLEUS_HEADER_MARK == 8000
SOLEUS_HEADER_SPACE == 4000
SOLEUS_BIT_MARK == 600
SOLEUS_ONE_SPACE == 1600
SOLEUS_ZERO_SPACE == 550

SOLEUS_BYTE1_DEVICE == 25
SOLEUS_BYTE2_NORMAL == 128
SOLEUS_BYTE2_SLEEP == 129
SOLEUS_BYTE2_POWER_OFF == 0
SOLEUS_FAN_DRY_LOW == 18
SOLEUS_BYTE3_POWER_OFF == 19
SOLEUS_BYTE5_AUTO == 72
SOLEUS_BYTE5_FAN_ONLY == 79
SOLEUS_BYTE5_POWER_OFF == 79
SOLEUS_BYTE5_DRY == 79
SOLEUS_TEMP_BASE == 62

----------------------------------------------------------------------------
(* temperature conversion and checksum *)

\* the float constants of the two conversions
F32 == FromInt(32)

FTempMin == FromInt(SOLEUS_TEMP_MIN)

FTempMax == FromInt(SOLEUS_TEMP_MAX)

\* fault model: temp_to_protocol_ rounding to the nearest degree instead of
\* dropping the fraction
temp_to_protocol_nearest(temp_c) ==
  LET temp_f  == FAdd(FDivInt(FMulInt(temp_c, 9), 5), F32)
      clamped == FMax(FTempMin, FMin(FTempMax, temp_f))
      half    == RoundDiv(1, 2, 0)
  IN  (SOLEUS_TEMP_BASE
         + FTrunc(FAdd(FSub(clamped, FTempMin), half))) % 256

\* fault model: temp_to_protocol_ without the clamp to 62..86
temp_to_protocol_unclamped(temp_c) ==
  LET temp_f == FAdd(FDivInt(FMulInt(temp_c, 9), 5), F32)
  IN  (SOLEUS_TEMP_BASE + FTrunc(FSub(temp_f, FTempMin))) % 256

temp_to_protocol_(temp_c) ==
  LET temp_f  == FAdd(FDivInt(FMulInt(temp_c, 9), 5), F32)
      clamped == FMax(FTempMin, FMin(FTempMax, temp_f))
  IN  (SOLEUS_TEMP_BASE + FTrunc(FSub(clamped, FTempMin))) % 256

protocol_to_temp_(value) ==
  LET temp_f == FromInt(value - SOLEUS_TEMP_BASE + SOLEUS_TEMP_MIN)
  IN  FDivInt(FMulInt(FSub(temp_f, F32), 5), 9)

calculate_checksum_(byte2, byte3, byte5) == (byte2 + byte3 + byte5) % 256

----------------------------------------------------------------------------
(* bytes and bits *)

RECURSIVE Or8Bits(_, _, _)
Or8Bits(a, b, n) ==
  IF n = 0 THEN 0
  ELSE (IF a % 2 = 1 \/ b % 2 = 1 THEN 1 ELSE 0)
       + 2 * Or8Bits(a \div 2, b \div 2, n - 1)

\* a | b on uint8_t
Or8(a, b) == Or8Bits(a, b, 8)

\* (b & (1 << bit)) != 0
BitSet(b, bit) == (b \div (2^bit)) % 2 = 1

\* b & 0xF0 and b & 0x0F
HighNibble(b) == (b \div 16) * 16

LowNibble(b) == b % 16

ZeroFrame == <<0, 0, 0, 0, 0, 0, 0, 0, 0>>

----------------------------------------------------------------------------
(* the climate entity's values *)

\* climate::ClimateMode values the component can hold
Modes == {"OFF", "HEAT_COOL", "COOL", "HEAT", "FAN_ONLY", "DRY", "AUTO"}

\* fan modes: the three the unit has, and AUTO (the entity's default, which
\* falls into the default branch of the switch in transmit_state)
FanModes == {"LOW", "MEDIUM", "HIGH", "AUTO"}

Presets == {"NONE", "ECO", "SLEEP"}

\* traits(): the modes offered to the host
traits(supports_heat) ==
  {"OFF", "COOL", "FAN_ONLY", "DRY", "AUTO"}
    \cup (IF supports_heat THEN {"HEAT", "HEAT_COOL"} ELSE {})

----------------------------------------------------------------------------
(* transmit_state: logical state -> frame -> pulse train *)

fan_speed_base(f) ==
  CASE f = "LOW" -> 16
    [] f = "MEDIUM" -> 32
    [] f = "HIGH" -> 48
    [] OTHER -> 32

\* fault model: the cascade with power-off sent as all zero bytes
ModeBytes_OffZero(m, f, p, t) ==
  IF m = "OFF"
  THEN <<0, 0, 0>>
  ELSE LET is_sleep == (p = "SLEEP")
           is_eco   == (p = "ECO")
           b1       == IF is_sleep THEN SOLEUS_BYTE2_SLEEP ELSE SOLEUS_BYTE2_NORMAL
           base     == fan_speed_base(f)
       IN  IF m = "FAN_ONLY" THEN <<b1, Or8(base, 3), SOLEUS_BYTE5_FAN_ONLY>>
           ELSE IF m = "AUTO" THEN <<b1, Or8(base, 0), SOLEUS_BYTE5_AUTO>>
           ELSE IF m = "DRY" THEN <<b1, SOLEUS_FAN_DRY_LOW, SOLEUS_BYTE5_DRY>>
           ELSE IF m = "HEAT" THEN <<b1, Or8(base, 1), temp_to_protocol_(t)>>
           ELSE IF is_sleep THEN <<b1, Or8(base, 6), temp_to_protocol_(t)>>
           ELSE IF is_eco THEN <<b1, Or8(base, 5), temp_to_protocol_(t)>>
           ELSE <<b1, Or8(base, 1), temp_to_protocol_(t)>>

\* fault model: the cascade with the presets tested before HEAT
ModeBytes_PresetFirst(m, f, p, t) ==
  IF m = "OFF"
  THEN <<SOLEUS_BYTE2_POWER_OFF, SOLEUS_BYTE3_POWER_OFF, SOLEUS_BYTE5_POWER_OFF>>
  ELSE LET is_sleep == (p = "SLEEP")
           is_eco   == (p = "ECO")
           b1       == IF is_sleep THEN SOLEUS_BYTE2_SLEEP ELSE SOLEUS_BYTE2_NORMAL
           base     == fan_speed_base(f)
       IN  IF m = "FAN_ONLY" THEN <<b1, Or8(base, 3), SOLEUS_BYTE5_FAN_ONLY>>
           ELSE IF m = "AUTO" THEN <<b1, Or8(base, 0), SOLEUS_BYTE5_AUTO>>
           ELSE IF m = "DRY" THEN <<b1, SOLEUS_FAN_DRY_LOW, SOLEUS_BYTE5_DRY>>
           ELSE IF is_sleep THEN <<b1, Or8(base, 6), temp_to_protocol_(t)>>
           ELSE IF is_eco THEN <<b1, Or8(base, 5), temp_to_protocol_(t)>>
           ELSE IF m = "HEAT" THEN <<b1, Or8(base, 1), temp_to_protocol_(t)>>
           ELSE <<b1, Or8(base, 1), temp_to_protocol_(t)>>

\* frame[1], frame[2], frame[4] as chosen by the mode / preset cascade
ModeBytes(m, f, p, t) ==
  IF m = "OFF"
  THEN <<SOLEUS_BYTE2_POWER_OFF, SOLEUS_BYTE3_POWER_OFF, SOLEUS_BYTE5_POWER_OFF>>
  ELSE LET is_sleep == (p = "SLEEP")
           is_eco   == (p = "ECO")
           b1       == IF is_sleep THEN SOLEUS_BYTE2_SLEEP ELSE SOLEUS_BYTE2_NORMAL
           base     == fan_speed_base(f)
       IN  IF m = "FAN_ONLY" THEN <<b1, Or8(base, 3), SOLEUS_BYTE5_FAN_ONLY>>
           ELSE IF m = "AUTO" THEN <<b1, Or8(base, 0), SOLEUS_BYTE5_AUTO>>
           ELSE IF m = "DRY" THEN <<b1, SOLEUS_FAN_DRY_LOW, SOLEUS_BYTE5_DRY>>
           ELSE IF m = "HEAT" THEN <<b1, Or8(base, 1), temp_to_protocol_(t)>>
           ELSE IF is_sleep THEN <<b1, Or8(base, 6), temp_to_protocol_(t)>>
           ELSE IF is_eco THEN <<b1, Or8(base, 5), temp_to_protocol_(t)>>
           ELSE <<b1, Or8(base, 1), temp_to_protocol_(t)>>

\* the frame around the three bytes b chosen by the cascade
FrameOfBytes(b) ==
  <<SOLEUS_BYTE1_DEVICE, b[1], b[2], 0, b[3], 0, 0, 0,
    calculate_checksum_(b[1], b[2], b[3])>>

\* the 9-byte frame of transmit_state
BuildFrame(m, f, p, t) == FrameOfBytes(ModeBytes(m, f, p, t))

\* fan_mode after transmit_state: DRY forces LOW
FanAfterTransmit(m, f) == IF m = "DRY" THEN "LOW" ELSE f

\* fault model: the inner loop sending the least significant bit first
RECURSIVE BytePulses_LSB(_, _)
BytePulses_LSB(b, bit) ==
  IF bit < 0 THEN <<>>
  ELSE <<SOLEUS_BIT_MARK,
         IF BitSet(b, 7 - bit) THEN SOLEUS_ONE_SPACE ELSE SOLEUS_ZERO_SPACE>>
       \o BytePulses_LSB(b, bit - 1)

\* the inner loop of transmit_state: the pulses of bits bit..0 of one byte
RECURSIVE BytePulses(_, _)
BytePulses(b, bit) ==
  IF bit < 0 THEN <<>>
  ELSE <<SOLEUS_BIT_MARK,
         IF BitSet(b, bit) THEN SOLEUS_ONE_SPACE ELSE SOLEUS_ZERO_SPACE>>
       \o BytePulses(b, bit - 1)

\* what the inner loop appends for each value of a frame byte
PulsesOfByte == [b \in 0..255 |-> BytePulses(b, 7)]

\* the outer loop of transmit_state: the pulses of bytes i..8 of the frame
RECURSIVE FramePulses(_, _)
FramePulses(fr, i) ==
  IF i >= 9 THEN <<>>
  ELSE PulsesOfByte[fr[i + 1]] \o FramePulses(fr, i + 1)

\* pronto_data: header, the bits of the frame, trailing mark
ToPulses(fr) ==
  Append(<<SOLEUS_HEADER_MARK, SOLEUS_HEADER_SPACE>> \o FramePulses(fr, 0),
         SOLEUS_BIT_MARK)

----------------------------------------------------------------------------
(* on_receive: pulse train -> frame -> logical state *)

\* RemoteReceiveData's matcher: a duration matches an expected length within
\* the receiver's tolerance, 25 percent
InTolerance(value, length) ==
  /\ ((100 - 25) * length) \div 100 <= value
  /\ value <= ((100 + 25) * length) \div 100

\* data.expect_item(mark, space) at read position idx: TRUE when the next
\* two durations exist and match (the position then advances by 2)
expect_item(d, idx, mark, space) ==
  /\ idx + 2 <= Len(d)
  /\ InTolerance(d[idx + 1], mark)
  /\ InTolerance(d[idx + 2], space)

\* fault model: the bit loop reading a pair that matches neither pattern as a
\* zero bit and going on
RECURSIVE BitsOfByte_Skip(_, _, _, _)
BitsOfByte_Skip(d, idx, bit_index, value) ==
  IF bit_index < 0 THEN [ok |-> TRUE, value |-> value, index |-> idx]
  ELSE IF expect_item(d, idx, SOLEUS_BIT_MARK, SOLEUS_ONE_SPACE)
  THEN BitsOfByte_Skip(d, idx + 2, bit_index - 1, Or8(value, 2^bit_index))
  ELSE BitsOfByte_Skip(d, idx + 2, bit_index - 1, value)

\* the eight iterations of the bit loop of on_receive that fill one byte of
\* the frame, from bit_index down to 0; the one-bit pattern is tried first
RECURSIVE BitsOfByte(_, _, _, _)
BitsOfByte(d, idx, bit_index, value) ==
  IF bit_index < 0 THEN [ok |-> TRUE, value |-> value, index |-> idx]
  ELSE IF expect_item(d, idx, SOLEUS_BIT_MARK, SOLEUS_ONE_SPACE)
  THEN BitsOfByte(d, idx + 2, bit_index - 1, Or8(value, 2^bit_index))
  ELSE IF expect_item(d, idx, SOLEUS_BIT_MARK, SOLEUS_ZERO_SPACE)
  THEN BitsOfByte(d, idx + 2, bit_index - 1, value)
  ELSE [ok |-> FALSE, value |-> value, index |-> idx]

\* the 72-iteration bit loop of on_receive, from frame byte byte_index on
RECURSIVE BitLoop(_, _, _, _)
BitLoop(d, idx, byte_index, fr) ==
  IF byte_index >= 9 THEN [ok |-> TRUE, frame |-> fr, index |-> idx]
  ELSE LET b   == BitsOfByte(d, idx, 7, 0)
           fr1 == [fr EXCEPT ![byte_index + 1] = b.value]
       IN  IF ~b.ok THEN [ok |-> FALSE, frame |-> fr1, index |-> b.index]
           ELSE BitLoop(d, b.index, byte_index + 1, fr1)

\* the logical state as a record
State(m, f, p, t) ==
  [mode |-> m, fan_mode |-> f, preset |-> p, target_temperature |-> t]

\* the switch on the upper nibble of frame[2]
ParseFan(fr, f) ==
  LET fan_speed == HighNibble(fr[3])
  IN  CASE fan_speed = 16 -> "LOW"
        [] fan_speed = 32 -> "MEDIUM"
        [] fan_speed = 48 -> "HIGH"
        [] OTHER -> f

\* fault model: parse_state_frame_ falling back to AUTO / NONE on a mode
\* nibble it does not know
parse_state_frame_DefaultAuto(fr, st) ==
  IF fr[2] = SOLEUS_BYTE2_POWER_OFF
  THEN [st EXCEPT !.mode = "OFF"]
  ELSE LET f1          == ParseFan(fr, st.fan_mode)
           mode_nibble == LowNibble(fr[3])
           t1          == protocol_to_temp_(fr[5])
       IN  CASE mode_nibble = 1 -> State("COOL", f1, "NONE", t1)
             [] mode_nibble = 2 -> State("DRY", "LOW", "NONE", st.target_temperature)
             [] mode_nibble = 3 -> State("FAN_ONLY", f1, "NONE", st.target_temperature)
             [] mode_nibble = 5 -> State("COOL", f1, "ECO", t1)
             [] mode_nibble = 6 -> State("COOL", f1, "SLEEP", t1)
             [] OTHER -> State("AUTO", f1, "NONE", st.target_temperature)

\* parse_state_frame_: the logical state it leaves (it always publishes and
\* returns true)
parse_state_frame_(fr, st) ==
  IF fr[2] = SOLEUS_BYTE2_POWER_OFF
  THEN [st EXCEPT !.mode = "OFF"]
  ELSE LET f1          == ParseFan(fr, st.fan_mode)
           mode_nibble == LowNibble(fr[3])
           t1          == protocol_to_temp_(fr[5])
       IN  CASE mode_nibble = 0 -> State("AUTO", f1, "NONE", st.target_temperature)
             [] mode_nibble = 1 -> State("COOL", f1, "NONE", t1)
             [] mode_nibble = 2 -> State("DRY", "LOW", "NONE", st.target_temperature)
             [] mode_nibble = 3 -> State("FAN_ONLY", f1, "NONE", st.target_temperature)
             [] mode_nibble = 5 -> State("COOL", f1, "ECO", t1)
             [] mode_nibble = 6 -> State("COOL", f1, "SLEEP", t1)
             [] OTHER -> State(st.mode, f1, st.preset, st.target_temperature)

\* the pulse layer of on_receive: the header check and the bit loop. ok is
\* FALSE when on_receive returned false there; frame is the local frame[9]
\* and index the read position at that point
PulseLayer(d) ==
  IF ~expect_item(d, 0, SOLEUS_HEADER_MARK, SOLEUS_HEADER_SPACE)
  THEN [ok |-> FALSE, frame |-> ZeroFrame, index |-> 0]
  ELSE BitLoop(d, 2, 0, ZeroFrame)

\* fault model: on_receive without the checksum comparison
FrameLayer_NoChecksum(r, st) ==
  IF ~r.ok THEN [ret |-> FALSE, parsed |-> FALSE, state |-> st]
  ELSE IF r.frame[1] # SOLEUS_BYTE1_DEVICE
  THEN [ret |-> FALSE, parsed |-> FALSE, state |-> st]
  ELSE [ret |-> TRUE, parsed |-> TRUE, state |-> parse_state_frame_(r.frame, st)]

\* the rest of on_receive, given the pulse layer's outcome r and the logical
\* state st: what on_receive returns, whether it entered parse_state_frame_,
\* and the logical state it leaves
FrameLayer(r, st) ==
  IF ~r.ok THEN [ret |-> FALSE, parsed |-> FALSE, state |-> st]
  ELSE IF r.frame[1] # SOLEUS_BYTE1_DEVICE
  THEN [ret |-> FALSE, parsed |-> FALSE, state |-> st]
  ELSE IF r.frame[9] # calculate_checksum_(r.frame[2], r.frame[3], r.frame[5])
  THEN [ret |-> FALSE, parsed |-> FALSE, state |-> st]
  ELSE [ret |-> TRUE, parsed |-> TRUE, state |-> parse_state_frame_(r.frame, st)]

----------------------------------------------------------------------------
(* inputs *)

\* host set-points, whole degrees Celsius
MinHostC == 10
MaxHostC == 35

\* the Celsius value of a whole Fahrenheit degree, as the component itself
\* reports it
WholeF(F) == protocol_to_temp_(SOLEUS_TEMP_BASE + (F - SOLEUS_TEMP_MIN))

WholeFahrenheitTemps == {WholeF(F) : F \in SOLEUS_TEMP_MIN..SOLEUS_TEMP_MAX}

WholeCelsiusTemps == {FromInt(c) : c \in MinHostC..MaxHostC}

\* set-points far outside the unit's range, as decoded from bytes 0x00, 0xFF
ExtremeTemps == {protocol_to_temp_(0), protocol_to_temp_(255)}

\* every set-point the model considers
AllTemps ==
  WholeFahrenheitTemps \cup WholeCelsiusTemps \cup ExtremeTemps \cup {NaN}

\* set-points the host writes while the entity runs
ControlTemps == {FromInt(22), FromInt(SOLEUS_TEMP_MAX_C)}

\* a frame with the right device id and checksum
ValidFrame(b1, b2, b4) ==
  <<SOLEUS_BYTE1_DEVICE, b1, b2, 0, b4, 0, 0, 0, calculate_checksum_(b1, b2, b4)>>

\* byte 2 values seen on the air: every mode nibble the unit uses, with each
\* fan nibble, and nibbles the protocol does not define
RxByte2 == {16, 33, 49, 18, 50, 35, 21, 38, 4, 65, 23, 2, 63}

RxValidFrames ==
  {ValidFrame(SOLEUS_BYTE2_NORMAL, b2, 71) : b2 \in RxByte2}
    \cup {ValidFrame(SOLEUS_BYTE2_SLEEP, b2, 71) : b2 \in {38, 33, 16, 4}}
    \cup {ValidFrame(SOLEUS_BYTE2_NORMAL, b2, 62) : b2 \in {33, 21, 38}}
    \cup {ValidFrame(SOLEUS_BYTE2_POWER_OFF, 19, 79), ValidFrame(SOLEUS_BYTE2_POWER_OFF, 0, 0),
          [ValidFrame(SOLEUS_BYTE2_NORMAL, 33, 71) EXCEPT ![4] = 255, ![7] = 1]}

\* frames with a wrong device id or a checksum that does not match: the
\* checksum byte itself altered, or one bit of byte 1, 2 or 4 flipped
RxMalformedFrames ==
  LET fr  == ValidFrame(SOLEUS_BYTE2_NORMAL, 49, 72)
      off == ValidFrame(SOLEUS_BYTE2_POWER_OFF, 19, 79)
  IN  {[fr EXCEPT ![1] = 32],
       [fr EXCEPT ![9] = (@ + 1) % 256],
       [fr EXCEPT ![2] = @ + 1],
       [fr EXCEPT ![3] = @ - 32],
       [fr EXCEPT ![5] = @ + 128],
       [off EXCEPT ![1] = 32],
       [off EXCEPT ![3] = 0]}

\* positions (0-based bit pair) at which a received train is damaged
BadPairs == {0, 39, 71}

\* pulse trains that are damaged at the pulse layer: empty, wrong header,
\* cut short, a space or a mark that matches no pattern
RxBadPulses ==
  LET good == ToPulses(ValidFrame(SOLEUS_BYTE2_NORMAL, 49, 72))
  IN  {<<>>,
       [good EXCEPT ![1] = SOLEUS_BIT_MARK],
       SubSeq(good, 1, 101),
       [good EXCEPT ![3 + 2 * 8] = 100]}
        \cup {[good EXCEPT ![4 + 2 * n] = 1000] : n \in BadPairs}

\* a clean train whose durations are off by less than the tolerance
RxNoisyPulses ==
  LET good == ToPulses(ValidFrame(SOLEUS_BYTE2_NORMAL, 21, 71))
  IN  {[j \in 1..Len(good) |-> IF j % 2 = 1 THEN good[j] + 100 ELSE good[j] - 50]}

RxInputs ==
  {ToPulses(fr) : fr \in RxValidFrames \cup RxMalformedFrames}
    \cup RxBadPulses \cup RxNoisyPulses

----------------------------------------------------------------------------
(* state *)

VARIABLES
  supports_heat_,       \* configuration flag of the entity
  mode,                 \* climate::ClimateMode
  fan_mode,             \* climate::ClimateFanMode
  preset,               \* climate::ClimatePreset
  target_temperature,   \* float, degrees Celsius
  op,                   \* the operation that ran last
  frame,                \* the local frame[9] of that operation
  pronto_data,          \* pulse train handed to the transmitter, <<>> if none
  data,                 \* pulse train handed to on_receive, <<>> if none
  data_index,           \* how many durations on_receive consumed
  result,               \* what on_receive returned
  parsed,               \* on_receive entered parse_state_frame_
  published             \* publish_state was called by the receive path

logical == <<mode, fan_mode, preset, target_temperature>>

vars == <<supports_heat_, mode, fan_mode, preset, target_temperature, op, frame,
          pronto_data, data, data_index, result, parsed, published>>

\* the entity after construction and setup: off, no set-point yet
Init ==
  /\ supports_heat_ \in BOOLEAN
  /\ mode = "OFF"
  /\ fan_mode = "AUTO"
  /\ preset = "NONE"
  /\ target_temperature = NaN
  /\ op = "construct"
  /\ frame = ZeroFrame
  /\ pronto_data = <<>>
  /\ data = <<>>
  /\ data_index = 0
  /\ result = FALSE
  /\ parsed = FALSE
  /\ published = FALSE

\* any logical state the host can have written
InitAny ==
  /\ supports_heat_ \in BOOLEAN
  /\ mode \in traits(supports_heat_)
  /\ fan_mode \in FanModes
  /\ preset \in Presets
  /\ target_temperature \in AllTemps
  /\ op = "construct"
  /\ frame = ZeroFrame
  /\ pronto_data = <<>>
  /\ data = <<>>
  /\ data_index = 0
  /\ result = FALSE
  /\ parsed = FALSE
  /\ published = FALSE

\* transmit_state with the logical state (m, f, p, t)
TransmitState(m, f, p, t) ==
  \E fr \in {BuildFrame(m, f, p, t)} :
    /\ mode' = m
    /\ fan_mode' = FanAfterTransmit(m, f)
    /\ preset' = p
    /\ target_temperature' = t
    /\ op' = "transmit_state"
    /\ frame' = fr
    /\ pronto_data' = ToPulses(fr)
    /\ data' = <<>>
    /\ data_index' = 0
    /\ result' = FALSE
    /\ parsed' = FALSE
    /\ published' = FALSE
    /\ UNCHANGED supports_heat_

\* the host changes one field and the entity transmits
ControlMode(m) ==
  /\ m \in traits(supports_heat_)
  /\ TransmitState(m, fan_mode, preset, target_temperature)

ControlFan(f) == TransmitState(mode, f, preset, target_temperature)

ControlPreset(p) == TransmitState(mode, fan_mode, p, target_temperature)

ControlTemp(t) == TransmitState(mode, fan_mode, preset, t)

\* the entity transmits its current state again
Retransmit == TransmitState(mode, fan_mode, preset, target_temperature)

\* on_receive called with the pulse train d, whose pulse layer outcome is r
Receive(d, r) ==
  \E o \in {FrameLayer(r, State(mode, fan_mode, preset, target_temperature))} :
    /\ mode' = o.state.mode
    /\ fan_mode' = o.state.fan_mode
    /\ preset' = o.state.preset
    /\ target_temperature' = o.state.target_temperature
    /\ op' = "on_receive"
    /\ frame' = r.frame
    /\ pronto_data' = <<>>
    /\ data' = d
    /\ data_index' = r.index
    /\ result' = o.ret
    /\ parsed' = o.parsed
    /\ published' = o.parsed
    /\ UNCHANGED supports_heat_

\* the pulse layer outcome of every train in RxInputs
RxDecoded == [d \in RxInputs |-> PulseLayer(d)]

\* on_receive called with a pulse train from another remote
OnReceive(d) == Receive(d, RxDecoded[d])

\* the receiver picks up the entity's own transmission
Loopback ==
  /\ op = "transmit_state"
  /\ \E r \in {PulseLayer(pronto_data)} : Receive(pronto_data, r)

Next ==
  \/ \E m \in Modes : ControlMode(m)
  \/ \E f \in {"LOW", "MEDIUM", "HIGH"} : ControlFan(f)
  \/ \E p \in Presets : ControlPreset(p)
  \/ \E t \in ControlTemps : ControlTemp(t)
  \/ \E d \in RxInputs : OnReceive(d)
  \/ Loopback

Spec == Init /\ [][Next]_vars

\* every logical state, transmitted and heard back
NextAny ==
  \/ Retransmit
  \/ Loopback

SpecAny == InitAny /\ [][NextAny]_vars

----------------------------------------------------------------------------
(* properties *)

\* C1 (as claimed): a powered-on state with mode AUTO, COOL, DRY, FAN_ONLY or
\* HEAT, fan LOW, MEDIUM or HIGH, any preset and a set-point on a whole
\* Fahrenheit degree, once transmitted and heard back, is accepted and decodes
\* to the same mode, preset and set-point, and to the same fan speed (LOW for
\* DRY).
C1_RoundTripAllFields ==
  [][(/\ op = "transmit_state"
      /\ op' = "on_receive"
      /\ data' = pronto_data
      /\ mode \in {"AUTO", "COOL", "DRY", "FAN_ONLY", "HEAT"}
      /\ fan_mode \in {"LOW", "MEDIUM", "HIGH"}
      /\ target_temperature \in WholeFahrenheitTemps)
     => (/\ result'
         /\ mode' = mode
         /\ preset' = preset
         /\ target_temperature' = target_temperature
         /\ fan_mode' = IF mode = "DRY" THEN "LOW" ELSE fan_mode)]_vars

\* C2: a completely received frame whose device id is not 0x19 or whose
\* checksum byte is not (byte1 + byte2 + byte4) mod 256 makes on_receive
\* return false without entering parse_state_frame_ or publishing, and leaves
\* mode, fan speed, preset and set-point as they were.
C2_MalformedRejected ==
  [][(/\ op' = "on_receive"
      /\ data_index' = 146
      /\ \/ frame'[1] # 25
         \/ frame'[9] # (frame'[2] + frame'[3] + frame'[5]) % 256)
     => (/\ ~result'
         /\ ~parsed'
         /\ ~published'
         /\ UNCHANGED logical)]_vars

\* C2 witness: a frame with device id 0x20 was rejected while the entity was
\* in a state set by earlier operations.
C2_Witness ==
  /\ op = "on_receive"
  /\ data_index = 146
  /\ frame[1] = 32
  /\ ~result
  /\ mode = "COOL"
  /\ preset = "ECO"
  /\ fan_mode = "HIGH"

\* C3 (as claimed): a powered-off state is transmitted as the frame
\* 19 00 00 00 00 00 00 00 00.
C3_PowerOffAllZero ==
  (op = "transmit_state" /\ mode = "OFF")
    => frame = <<25, 0, 0, 0, 0, 0, 0, 0, 0>>

\* C3 (amended): a powered-off state, whatever its fan speed, preset and
\* set-point, is transmitted as the frame 19 00 13 00 4F 00 00 00 62, and
\* that frame, received, is accepted and yields mode OFF.
C3_PowerOffFrame ==
  /\ (op = "transmit_state" /\ mode = "OFF")
       => frame = <<25, 0, 19, 0, 79, 0, 0, 0, 98>>
  /\ (op = "on_receive" /\ data_index = 146
        /\ frame = <<25, 0, 19, 0, 79, 0, 0, 0, 98>>)
       => (result /\ published /\ mode = "OFF")

\* C3 witness: the power-off frame of a state with a preset and a set-point
\* was heard back and decoded to OFF.
C3_Witness ==
  /\ op = "on_receive"
  /\ frame = <<25, 0, 19, 0, 79, 0, 0, 0, 98>>
  /\ result
  /\ mode = "OFF"
  /\ preset = "SLEEP"
  /\ fan_mode = "HIGH"
  /\ target_temperature = FromInt(22)

\* C4 (as claimed): plain COOL is transmitted with byte 4 = 0x3E + (F - 62),
\* F being the set-point in Fahrenheit rounded to the nearest whole degree and
\* clamped to 62..86; 22 C with fan HIGH gives 19 80 31 00 48 00 00 00 F9.
C4_CoolNearestDegree ==
  \A c \in MinHostC..MaxHostC :
    (/\ op = "transmit_state"
     /\ mode = "COOL"
     /\ preset = "NONE"
     /\ fan_mode \in {"LOW", "MEDIUM", "HIGH"}
     /\ target_temperature = FromInt(c))
    => LET near == (2 * (9 * c + 160) + 5) \div 10
           F    == IF near < 62 THEN 62 ELSE IF near > 86 THEN 86 ELSE near
           b2   == (CASE fan_mode = "LOW" -> 16
                      [] fan_mode = "MEDIUM" -> 32
                      [] fan_mode = "HIGH" -> 48) + 1
           t    == 62 + (F - 62)
       IN  /\ frame = <<25, 128, b2, 0, t, 0, 0, 0, (128 + b2 + t) % 256>>
           /\ (c = 22 /\ fan_mode = "HIGH")
                => frame = <<25, 128, 49, 0, 72, 0, 0, 0, 249>>

\* C4 (amended): plain COOL is transmitted with byte 4 = 0x3E + (F - 62),
\* F being the set-point in Fahrenheit clamped to 62..86 with its fraction
\* dropped; 22 C (71.6 F, taken as 71 F) with fan HIGH gives
\* 19 80 31 00 47 00 00 00 F8.
C4_CoolTruncatedDegree ==
  /\ \A c \in MinHostC..MaxHostC :
       (/\ op = "transmit_state"
        /\ mode = "COOL"
        /\ preset = "NONE"
        /\ fan_mode \in {"LOW", "MEDIUM", "HIGH"}
        /\ target_temperature = FromInt(c))
       => LET down == (9 * c + 160) \div 5
              F    == IF down < 62 THEN 62 ELSE IF down > 86 THEN 86 ELSE down
              b2   == (CASE fan_mode = "LOW" -> 16
                         [] fan_mode = "MEDIUM" -> 32
                         [] fan_mode = "HIGH" -> 48) + 1
              t    == 62 + (F - 62)
          IN  /\ frame = <<25, 128, b2, 0, t, 0, 0, 0, (128 + b2 + t) % 256>>
              /\ (c = 22 /\ fan_mode = "HIGH")
                   => frame = <<25, 128, 49, 0, 71, 0, 0, 0, 248>>
  /\ \A F \in 62..86 :
       (/\ op = "transmit_state"
        /\ mode = "COOL"
        /\ preset = "NONE"
        /\ target_temperature = WholeF(F))
       => frame[5] = F

\* C4 witness: COOL, fan HIGH, no preset, 22 C was transmitted with byte 4 =
\* 0x47 and checksum 0xF8.
C4_Witness ==
  /\ op = "transmit_state"
  /\ mode = "COOL"
  /\ preset = "NONE"
  /\ fan_mode = "HIGH"
  /\ target_temperature = FromInt(22)
  /\ frame = <<25, 128, 49, 0, 71, 0, 0, 0, 248>>

\* C5 (as claimed): transmit_state builds exactly 149 durations: the header
\* 8000, 4000, then for each of the 72 bits, bytes in frame order and most
\* significant bit first, 600 followed by 1600 (bit 1) or 550 (bit 0), then a
\* trailing 600; and the pulse layer of on_receive rebuilds the same 9 bytes
\* from them.
C5_Pulses149 ==
  [][/\ op' = "transmit_state"
          => /\ Len(pronto_data') = 149
             /\ pronto_data'[1] = 8000
             /\ pronto_data'[2] = 4000
             /\ \A n \in 0..71 :
                  /\ pronto_data'[3 + 2 * n] = 600
                  /\ pronto_data'[4 + 2 * n] =
                       IF (frame'[(n \div 8) + 1] \div (2^(7 - (n % 8)))) % 2 = 1
                       THEN 1600 ELSE 550
             /\ pronto_data'[149] = 600
     /\ (op = "transmit_state" /\ op' = "on_receive" /\ data' = pronto_data)
          => frame' = frame]_vars

\* C5 (amended): transmit_state builds exactly 147 durations (2 for the
\* header, 72 x 2 for the bits, 1 trailing mark): the header 8000, 4000, then
\* for each of the 72 bits, bytes in frame order and most significant bit
\* first, 600 followed by 1600 (bit 1) or 550 (bit 0), then a trailing 600;
\* and the pulse layer of on_receive, reading 146 of them, rebuilds the same 9
\* bytes in the same order.
C5_Pulses147 ==
  [][/\ op' = "transmit_state"
          => /\ Len(pronto_data') = 147
             /\ pronto_data'[1] = 8000
             /\ pronto_data'[2] = 4000
             /\ \A n \in 0..71 :
                  /\ pronto_data'[3 + 2 * n] = 600
                  /\ pronto_data'[4 + 2 * n] =
                       IF (frame'[(n \div 8) + 1] \div (2^(7 - (n % 8)))) % 2 = 1
                       THEN 1600 ELSE 550
             /\ pronto_data'[147] = 600
     /\ (op = "transmit_state" /\ op' = "on_receive" /\ data' = pronto_data)
          => (frame' = frame /\ data_index' = 146)]_vars

\* C5 witness: a 147-duration train carrying a frame with mixed bits was
\* heard back and decoded to that frame.
C5_Witness ==
  /\ op = "on_receive"
  /\ Len(data) = 147
  /\ data_index = 146
  /\ frame = <<25, 129, 54, 0, 77, 0, 0, 0, 4>>
  /\ result

\* C6: temp_to_protocol_ always yields a byte in 0x3E..0x56; every set-point
\* at or below 17 C yields 0x3E, the byte of 17 C, and every set-point at or
\* above 30 C yields 0x56, the byte of 30 C.
C6_TemperatureClamped ==
  (op = "transmit_state" /\ mode \in {"COOL", "HEAT", "HEAT_COOL"})
    => /\ frame[5] \in 62..86
       /\ (target_temperature # NaN
             /\ ~FLess(FromInt(17), target_temperature))
            => frame[5] = 62
       /\ (target_temperature # NaN
             /\ ~FLess(target_temperature, FromInt(30)))
            => frame[5] = 86
       /\ \A c \in MinHostC..MaxHostC :
            target_temperature = FromInt(c)
              => /\ c <= 17 => frame[5] = 62
                 /\ c >= 30 => frame[5] = 86

\* C6 witness: a set-point below the range (the lowest host set-point) was
\* transmitted as 0x3E.
C6_Witness ==
  /\ op = "transmit_state"
  /\ mode = "COOL"
  /\ target_temperature = FromInt(MinHostC)
  /\ MinHostC < 17
  /\ frame[5] = 62

\* C7: with power on, bytes 2 and 4 follow the first matching rule of
\* FAN_ONLY, AUTO, DRY, HEAT, preset SLEEP, preset ECO, plain COOL, so the
\* preset never changes them for FAN_ONLY, AUTO, DRY and HEAT; byte 1 is 0x81
\* exactly when the preset is SLEEP, whatever the mode, and 0x80 otherwise.
C7_ModePresetPriority ==
  (op = "transmit_state" /\ mode # "OFF")
    => LET base == CASE fan_mode = "LOW" -> 16
                     [] fan_mode = "MEDIUM" -> 32
                     [] fan_mode = "HIGH" -> 48
                     [] OTHER -> 32
           temp == temp_to_protocol_(target_temperature)
       IN  /\ frame[2] = IF preset = "SLEEP" THEN 129 ELSE 128
           /\ mode = "FAN_ONLY" => (frame[3] = base + 3 /\ frame[5] = 79)
           /\ mode = "AUTO" => (frame[3] = base /\ frame[5] = 72)
           /\ mode = "DRY" => (frame[3] = 18 /\ frame[5] = 79)
           /\ mode = "HEAT" => (frame[3] = base + 1 /\ frame[5] = temp)
           /\ (mode \notin {"FAN_ONLY", "AUTO", "DRY", "HEAT"} /\ preset = "SLEEP")
                => (frame[3] = base + 6 /\ frame[5] = temp)
           /\ (mode \notin {"FAN_ONLY", "AUTO", "DRY", "HEAT"} /\ preset = "ECO")
                => (frame[3] = base + 5 /\ frame[5] = temp)
           /\ (mode \notin {"FAN_ONLY", "AUTO", "DRY", "HEAT"} /\ preset = "NONE")
                => (frame[3] = base + 1 /\ frame[5] = temp)

\* C7 witness: HEAT with preset SLEEP was transmitted with the HEAT nibble
\* and the SLEEP indicator in byte 1.
C7_Witness ==
  /\ op = "transmit_state"
  /\ mode = "HEAT"
  /\ preset = "SLEEP"
  /\ fan_mode = "HIGH"
  /\ frame[2] = 129
  /\ frame[3] = 49

\* C8 (as claimed): an accepted frame whose byte 2 low nibble is 0x1 decodes
\* to HEAT when the unit is configured with supports_heat and to COOL when it
\* is not.
C8_HeatResolvedByFlag ==
  (op = "on_receive" /\ result /\ frame[2] # 0 /\ frame[3] % 16 = 1)
    => mode = IF supports_heat_ THEN "HEAT" ELSE "COOL"

\* C9: a frame with the right device id, a correct checksum and byte 1 not
\* the OFF indicator is accepted and published; a mode nibble outside
\* {0, 1, 2, 3, 5, 6} leaves mode, preset and set-point as they were; a fan
\* nibble outside {0x10, 0x20, 0x30} leaves the fan speed as it was unless the
\* mode nibble is DRY; only mode nibbles 1, 5 and 6 change the set-point.
C9_UnrecognizedFieldsKept ==
  [][(/\ op' = "on_receive"
      /\ data_index' = 146
      /\ frame'[1] = 25
      /\ frame'[9] = (frame'[2] + frame'[3] + frame'[5]) % 256
      /\ frame'[2] # 0)
     => (/\ result'
         /\ published'
         /\ (frame'[3] % 16) \notin {0, 1, 2, 3, 5, 6}
              => UNCHANGED <<mode, preset, target_temperature>>
         /\ ((frame'[3] \div 16) \notin {1, 2, 3} /\ frame'[3] % 16 # 2)
              => UNCHANGED fan_mode
         /\ (frame'[3] % 16) \notin {1, 5, 6}
              => UNCHANGED target_temperature)]_vars

\* C9 witness: a valid frame with unknown fan and mode nibbles (byte 2 =
\* 0x04) was accepted while the entity kept COOL / ECO / HIGH.
C9_Witness ==
  /\ op = "on_receive"
  /\ result
  /\ published
  /\ frame[3] = 4
  /\ mode = "COOL"
  /\ preset = "ECO"
  /\ fan_mode = "HIGH"
  /\ target_temperature = FromInt(22)

\* C10: when the header pair does not match, or one of the 72 bit pairs
\* matches neither the one pattern nor the zero pattern, on_receive returns
\* false having read no further than that pair, without entering
\* parse_state_frame_ or publishing, and leaves mode, fan speed, preset and
\* set-point as they were.
C10_PulseFailureStops ==
  [][op' = "on_receive"
     => LET d       == data'
            hdr     == /\ Len(d) >= 2
                       /\ 6000 <= d[1] /\ d[1] <= 10000
                       /\ 3000 <= d[2] /\ d[2] <= 5000
            bad(n)  == \/ Len(d) < 4 + 2 * n
                       \/ ~(450 <= d[3 + 2 * n] /\ d[3 + 2 * n] <= 750)
                       \/ ~(\/ 1200 <= d[4 + 2 * n] /\ d[4 + 2 * n] <= 2000
                            \/ 412 <= d[4 + 2 * n] /\ d[4 + 2 * n] <= 687)
            badset  == {n \in 0..71 : bad(n)}
            first   == CHOOSE n \in badset : \A k \in badset : n <= k
        IN  /\ ~hdr => (/\ ~result' /\ data_index' = 0
                        /\ ~parsed' /\ ~published' /\ UNCHANGED logical)
            /\ (hdr /\ badset # {})
                 => (/\ ~result' /\ data_index' = 2 + 2 * first
                     /\ ~parsed' /\ ~published' /\ UNCHANGED logical)]_vars

\* C10 witness: a train damaged at its 40th bit pair was given up there, in a
\* state set by earlier operations.
C10_Witness ==
  /\ op = "on_receive"
  /\ ~result
  /\ data_index = 2 + 2 * 39
  /\ Len(data) = 147
  /\ mode = "DRY"
  /\ preset = "NONE"

====
